---- MODULE Spec2Model ----
(***************************************************************************)
(* A model of the micro-agent of agenthub/micro/agent.py: parse_response,  *)
(* which extracts the first brace-balanced region of a completion text and *)
(* decodes it into an action, and MicroAgent.step_workflow, which walks    *)
(* the steps of agent_definition['workflow']; and of GithubPushAction.run  *)
(* of opendevin/action/github.py, which pushes a branch through a          *)
(* temporary remote; and of the Singleton metaclass of                     *)
(* opendevin/core/config.py, which keeps one instance per configuration    *)
(* class.                                                                  *)
(*                                                                         *)
(* Texts are sequences of one-character strings.  Python indices are kept  *)
(* 0-based as in the source; character i of text s is s[i + 1].            *)
(***************************************************************************)
EXTENDS Integers, Sequences, FiniteSets, TLC

\* ------------------------------------------------------------------ bounds
MaxSteps == 3
MaxLog == 2
MaxCalls == 4
MaxTokens == 5
MaxConstructs == 3

\* -------------------------------------------------------------- characters
Q == "\""

\* The key 'action' of an action dict and the key 'prompt' of a step's 'do',
\* abbreviated to one character each.
ActionKey == <<"a">>
PromptKey == <<"p">>

\* Action identifiers: "r" abbreviates 'run', "d" abbreviates 'read'.
RunId == <<"r">>
ReadId == <<"d">>

\* A JSON string value and a JSON object value (kept as its own text).
Str(v) == [t |-> "str", v |-> v]
Obj(v) == [t |-> "obj", v |-> v]

\* The empty dict, and d[k] = v on a dict (a function with a finite domain).
EmptyDict == [k \in {} |-> Str(<<>>)]
Keys(d) == {k \in DOMAIN d : TRUE}
Put(d, k, v) == [x \in Keys(d) \cup {k} |-> IF x = k THEN v ELSE d[x]]

\* --------------------------------------------------------------- exceptions
Raise(error, msg) == [kind |-> "raise", error |-> error, msg |-> msg]

NoObjectFound ==
  Raise("LLMOutputError", "No valid JSON object found in response.")
InvalidJson ==
  Raise("LLMOutputError", "Invalid JSON in response.")

\* ---------------------------------------------------------------- json.loads
\* The decoder on the characters the model's texts are made of: objects,
\* strings, ':' and ','.  Any other character outside a string is a
\* JSONDecodeError.  A failure is [ok |-> FALSE]; a success carries the index
\* (1-based) after the value.

JFail == [ok |-> FALSE, next |-> 0, val |-> Str(<<>>)]

RECURSIVE StringEnd(_, _)
\* index of the closing quote of the string whose content starts at j, or 0
StringEnd(s, j) ==
  IF j > Len(s) THEN 0
  ELSE IF s[j] = Q THEN j
  ELSE StringEnd(s, j + 1)

JString(s, i) ==
  IF i > Len(s) \/ s[i] # Q THEN JFail
  ELSE LET e == StringEnd(s, i + 1)
       IN IF e = 0 THEN JFail
          ELSE [ok |-> TRUE, next |-> e + 1, val |-> Str(SubSeq(s, i + 1, e - 1))]

RECURSIVE JObject(_, _)
RECURSIVE JMembers(_, _, _)

JValue(s, i) ==
  IF i > Len(s) THEN JFail
  ELSE IF s[i] = Q THEN JString(s, i)
  ELSE IF s[i] = "{" THEN
    LET o == JObject(s, i)
    IN IF o.ok THEN [ok |-> TRUE, next |-> o.next,
                     val |-> Obj(SubSeq(s, i, o.next - 1))]
       ELSE JFail
  ELSE JFail

\* the members of an object from index i on, added to the dict d
JMembers(s, i, d) ==
  LET k == JString(s, i)
  IN IF ~k.ok THEN JFail
     ELSE IF k.next > Len(s) \/ s[k.next] # ":" THEN JFail
     ELSE LET v == JValue(s, k.next + 1)
          IN IF ~v.ok THEN JFail
             ELSE IF v.next > Len(s) THEN JFail
             ELSE IF s[v.next] = "," THEN
               JMembers(s, v.next + 1, Put(d, k.val.v, v.val))
             ELSE IF s[v.next] = "}" THEN
               [ok |-> TRUE, next |-> v.next + 1, val |-> Put(d, k.val.v, v.val)]
             ELSE JFail

\* an object starting at index i; val is the decoded dict
JObject(s, i) ==
  IF i > Len(s) \/ s[i] # "{" THEN JFail
  ELSE IF i + 1 <= Len(s) /\ s[i + 1] = "}" THEN
    [ok |-> TRUE, next |-> i + 2, val |-> EmptyDict]
  ELSE JMembers(s, i + 1, EmptyDict)

\* json.loads of a text that starts with '{': the dict, or a JSONDecodeError
\* (also when data follows the object)
JsonLoads(s) ==
  LET o == JObject(s, 1)
  IN IF o.ok /\ o.next = Len(s) + 1 THEN [ok |-> TRUE, val |-> o.val]
     ELSE [ok |-> FALSE, val |-> EmptyDict]

\* ----------------------------------------------------------- action_from_dict
RecognizedIds == {RunId, ReadId}

action_from_dict(d) ==
  IF ActionKey \notin Keys(d) THEN
    Raise("ActionError", "'action' key is not found")
  ELSE IF d[ActionKey].t # "str" \/ d[ActionKey].v \notin RecognizedIds THEN
    Raise("ActionError", "unrecognized action")
  ELSE [kind |-> "action", action |-> d[ActionKey].v,
        args |-> [k \in Keys(d) \ {ActionKey} |-> d[k]]]

\* ------------------------------------------------------------- parse_response
Decode(response) ==
  LET action_dict == JsonLoads(response)
  IN IF action_dict.ok THEN action_from_dict(action_dict.val)
     ELSE InvalidJson

\* the loop of parse_response without the test of start
RECURSIVE ScanNoStart(_, _, _, _)
ScanNoStart(orig_response, i, depth, start) ==
  IF i >= Len(orig_response) THEN [found |-> FALSE, response |-> <<>>]
  ELSE IF orig_response[i + 1] = "{" THEN
    ScanNoStart(orig_response, i + 1, depth + 1, IF depth = 0 THEN i ELSE start)
  ELSE IF orig_response[i + 1] = "}" THEN
    IF depth - 1 <= 0
    THEN [found |-> TRUE,
          response |-> SubSeq(orig_response, IF start = -1 THEN 1 ELSE start + 1,
                              i + 1)]
    ELSE ScanNoStart(orig_response, i + 1, depth - 1, start)
  ELSE ScanNoStart(orig_response, i + 1, depth, start)

RECURSIVE Scan(_, _, _, _)
\* the loop of parse_response at character i (0-based) with the loop's
\* depth and start, up to the slice it hands to json.loads: found is FALSE
\* when the loop ends without one
Scan(orig_response, i, depth, start) ==
  IF i >= Len(orig_response) THEN [found |-> FALSE, response |-> <<>>]
  ELSE IF orig_response[i + 1] = "{" THEN
    Scan(orig_response, i + 1, depth + 1, IF depth = 0 THEN i ELSE start)
  ELSE IF orig_response[i + 1] = "}" THEN
    IF depth - 1 = 0 /\ start # -1
    THEN [found |-> TRUE, response |-> SubSeq(orig_response, start + 1, i + 1)]
    ELSE Scan(orig_response, i + 1, depth - 1, start)
  ELSE Scan(orig_response, i + 1, depth, start)

\* the number of calls of json.loads that parse_response makes
Decodes(orig_response) ==
  IF Scan(orig_response, 0, 0, -1).found THEN 1 ELSE 0

parse_response(orig_response) ==
  LET candidate == Scan(orig_response, 0, 0, -1)
  IN IF candidate.found THEN Decode(candidate.response) ELSE NoObjectFound

\* ------------------------------------------------------------------- inputs
\* Observations: a CmdOutputObservation with its exit code, and one
\* observation of another class.
CmdOutputObservation(e) == [type |-> "CmdOutputObservation", exit_code |-> e]
NullObservation == [type |-> "NullObservation"]
Observations == {CmdOutputObservation(0), CmdOutputObservation(1), NullObservation}

\* state.updated_info: a list of (action, observation) pairs.  The pairs are
\* a run action with each observation and a read action with a failed output.
Pairs ==
  {[action |-> [action |-> RunId], obs |-> o] : o \in Observations}
    \cup {[action |-> [action |-> ReadId], obs |-> CmdOutputObservation(1)]}
SeqsUpTo(S, n) == UNION {[1..k -> S] : k \in 0..n}
Logs == SeqsUpTo(Pairs, MaxLog)

\* The 'do' of a step: a fixed action, a prompt, or neither.
PromptText == <<"s", "a", "y">>
FixedDo(id) == (ActionKey :> Str(id))
PromptDo == (PromptKey :> Str(PromptText))
Dos == {FixedDo(RunId), FixedDo(ReadId), PromptDo, EmptyDict}

\* Step names are unique within a workflow: the step at position i is named
\* after its position.  Every step carries a 'do'.
StepNames == <<"s0", "s1", "s2", "s3", "s4", "s5">>
StepsAt(i) == {[name |-> StepNames[i], do |-> d] : d \in Dos}
RECURSIVE WorkflowsOfLen(_)
WorkflowsOfLen(k) ==
  IF k = 0 THEN {<<>>}
  ELSE {Append(w, st) : w \in WorkflowsOfLen(k - 1), st \in StepsAt(k)}
Workflows == UNION {WorkflowsOfLen(k) : k \in 0..MaxSteps}

\* What the completion call of a templated step does: it fails, or it
\* returns one of these texts: an action, an object that is not JSON, an
\* object without 'action', and prose only.
Responses ==
  { <<"{", Q, "a", Q, ":", Q, "r", Q, "}">>,
    <<"{", "x", "}", "x", "x", "x", "x", "x", "x">>,
    <<"{", "}", "x", "x", "x", "x", "x", "x", "x">>,
    <<"x", "x", "x", "x", "x", "x", "x", "x", "x">> }
Completions ==
  {[ok |-> TRUE, content |-> r] : r \in Responses}
    \cup {[ok |-> FALSE, content |-> <<>>]}

\* The texts given to parse_response: up to MaxTokens pieces, each a brace, a
\* prose character, a piece of an object:  "a":"r"   ,"x":"}{"   ,"x":
\* or a whole object:  {"a":"r"}   {x}
MemberA == <<Q, "a", Q, ":", Q, "r", Q>>
MemberB == <<",", Q, "x", Q, ":", Q, "}", "{", Q>>
MemberC == <<",", Q, "x", Q, ":">>
ObjectA == <<"{">> \o MemberA \o <<"}">>
ObjectX == <<"{", "x", "}">>
Tokens ==
  {<<"{">>, <<"}">>, <<"x">>, MemberA, MemberB, MemberC, ObjectA, ObjectX}
RECURSIVE Concat(_)
Concat(pieces) ==
  IF pieces = <<>> THEN <<>> ELSE Head(pieces) \o Concat(Tail(pieces))
Texts(n) == {Concat(pieces) : pieces \in SeqsUpTo(Tokens, n)}

\* -------------------------------------------------------------------- state
VARIABLES
  workflow,        \* agent_definition['workflow']
  workflow_step,   \* self.workflow_step
  workflow_data,   \* self.workflow_data
  num_of_chars,    \* state.num_of_chars
  result,          \* what the latest call of step_workflow returned or raised
  calls,           \* number of calls of step_workflow so far
  dispatched,      \* indices of the steps dispatched so far, in order
  completions,     \* completion calls made by the latest call
  parses,          \* parse_response calls made by the latest call
  action_resp,     \* the completion's content in the latest call
  validated,       \* the latest call ran update_previous_workflow_step
  writes,          \* assignments to workflow_data made by the latest call
  accepted,        \* every log so far held accepted observations only
  fedback,         \* every log so far held the previously returned action
  failed,          \* a fixed action's observation in the log was a failure
  text,            \* the input of parse_response
  parsed,          \* its result
  decodes,         \* the calls of json.loads it made
  environ,         \* os.environ
  self,            \* the GithubPushAction: owner, repo, branch
  pc,              \* the position of run
  random_remote,   \* run's local random_remote
  set_url_result,  \* run's local set_url_result
  push_result,     \* run's local push_result
  returned,        \* what run returned
  ran,             \* the commands given to run_command, with their results
  instances,       \* Singleton._instances: class -> the id of its instance
  heap,            \* the instances ever created: heap[id] = [cls, attrs]
  ret,             \* the id the latest constructor call returned, 0 if it raised
  last,            \* the latest constructor call: cls, args, kwargs
  firsts,          \* class -> the id the first call for it returned
  constructs       \* number of constructor calls so far

wvars == <<workflow, workflow_step, workflow_data, num_of_chars, result, calls, dispatched, completions, parses,
           action_resp, validated, writes, accepted, fedback, failed>>
evars == <<text, parsed, decodes>>
pvars == <<environ, self, pc, random_remote, set_url_result, push_result, returned, ran>>
svars == <<instances, heap, ret, last, firsts, constructs>>
vars == <<wvars, evars, pvars, svars>>

None == [kind |-> "none"]
AgentFinishAction == [kind |-> "finish"]
AgentRejectAction == [kind |-> "reject"]

\* no GithubPushAction is running
PushIdle ==
  /\ environ = EmptyDict
  /\ self = None
  /\ pc = "idle"
  /\ random_remote = None
  /\ set_url_result = None
  /\ push_result = None
  /\ returned = None
  /\ ran = <<>>

\* no configuration class was called
SingletonIdle ==
  /\ instances = EmptyDict
  /\ heap = <<>>
  /\ ret = 0
  /\ last = None
  /\ firsts = EmptyDict
  /\ constructs = 0

\* ------------------------------------------------------- validate_observation
validate_observation_lax(action, obs) == TRUE

validate_observation(action, obs) ==
  IF obs.type = "CmdOutputObservation" THEN obs.exit_code = 0 ELSE TRUE

\* ---------------------------------------------- update_previous_workflow_step
\* The key of workflow_data that the loop writes.
DataKeyFirst(wf, step_index) == wf[1].name

DataKey(wf, step_index) == wf[step_index].name

\* the for loop that takes every pair of the log as a matching one
RECURSIVE UpdateLoopEveryPair(_, _, _, _, _, _)
UpdateLoopEveryPair(wf, prev, data, info, i, n) ==
  IF i > Len(info) THEN [ret |-> TRUE, data |-> data, writes |-> n]
  ELSE LET written == Put(data, DataKey(wf, prev), info[i].obs)
       IN IF ~validate_observation(info[i].action, info[i].obs)
          THEN [ret |-> FALSE, data |-> written, writes |-> n + 1]
          ELSE UpdateLoopEveryPair(wf, prev, written, info, i + 1, n + 1)

\* the for loop without the test of the action's kind
RECURSIVE UpdateLoopAnyKind(_, _, _, _, _, _)
UpdateLoopAnyKind(wf, prev, data, info, i, n) ==
  IF i > Len(info) THEN [ret |-> TRUE, data |-> data, writes |-> n]
  ELSE IF ActionKey \in Keys(wf[prev].do)
  THEN LET written == Put(data, DataKey(wf, prev), info[i].obs)
       IN IF ~validate_observation(info[i].action, info[i].obs)
          THEN [ret |-> FALSE, data |-> written, writes |-> n + 1]
          ELSE UpdateLoopAnyKind(wf, prev, written, info, i + 1, n + 1)
  ELSE UpdateLoopAnyKind(wf, prev, data, info, i + 1, n)

RECURSIVE UpdateLoop(_, _, _, _, _, _)
\* the for loop from pair i (1-based) of updated_info on; prev is the 1-based
\* position of prev_step.  ret is the returned bool, data the new
\* workflow_data, n the number of assignments to workflow_data made so far.
UpdateLoop(wf, prev, data, info, i, n) ==
  IF i > Len(info) THEN [ret |-> TRUE, data |-> data, writes |-> n]
  ELSE IF /\ ActionKey \in Keys(wf[prev].do)
          /\ info[i].action.action = wf[prev].do[ActionKey].v
  THEN LET written == Put(data, DataKey(wf, prev), info[i].obs)
       IN IF ~validate_observation(info[i].action, info[i].obs)
          THEN [ret |-> FALSE, data |-> written, writes |-> n + 1]
          ELSE UpdateLoop(wf, prev, written, info, i + 1, n + 1)
  ELSE UpdateLoop(wf, prev, data, info, i + 1, n)

\* prev_step is workflow[workflow_step - 1]
PrevStepOffByOne(step_index) == step_index

PrevStep(step_index) == step_index - 1

update_previous_workflow_step(wf, step_index, data, info) ==
  UpdateLoop(wf, PrevStep(step_index) + 1, data, info, 1, 0)

\* ------------------------------------------------------------ prompt_to_action
\* The completion call fails, or its content goes through parse_response.
\* result is what the call returns or raises, completions and parses count
\* its calls of self.llm.completion and of parse_response, action_resp is
\* the content of the completion.
prompt_to_action_retry(prompt, chars, llm) ==
  IF ~llm.ok THEN
    [result |-> Raise("CompletionError", "completion failed"), chars |-> chars,
     completions |-> 1, parses |-> 0, action_resp |-> <<>>]
  ELSE IF parse_response(llm.content).kind = "raise" THEN
    [result |-> parse_response(llm.content),
     chars |-> chars + 2 * (Len(prompt) + Len(llm.content)),
     completions |-> 2, parses |-> 2, action_resp |-> llm.content]
  ELSE [result |-> parse_response(llm.content),
        chars |-> chars + Len(prompt) + Len(llm.content),
        completions |-> 1, parses |-> 1, action_resp |-> llm.content]

prompt_to_action(prompt, chars, llm) ==
  IF ~llm.ok THEN
    [result |-> Raise("CompletionError", "completion failed"), chars |-> chars,
     completions |-> 1, parses |-> 0, action_resp |-> <<>>]
  ELSE [result |-> parse_response(llm.content),
        chars |-> chars + Len(prompt) + Len(llm.content),
        completions |-> 1, parses |-> 1, action_resp |-> llm.content]

\* --------------------------------------------------------------- step_workflow
\* self.workflow_step += 1
NextStepSkip(step_index) == step_index + 2

NextStepStay(step_index) == step_index

NextStep(step_index) == step_index + 1

\* the workflow is over: the first test of step_workflow
IsOver(wf, step_index) == step_index >= Len(wf)

\* the previous step is checked: the second test of step_workflow
MustValidate(step_index) == step_index > 0

\* step.get('do', {}) on a step that carries its 'do'
StepDo(step) == step.do

\* return AgentFinishAction() when the workflow is over
FinishCallRestart(step_index, data, chars) ==
  [step |-> 0, data |-> EmptyDict, chars |-> chars,
   result |-> AgentFinishAction, sent |-> <<>>, completions |-> 0,
   parses |-> 0, action_resp |-> <<>>, validated |-> FALSE, writes |-> 0]

FinishCall(step_index, data, chars) ==
  [step |-> step_index, data |-> data, chars |-> chars,
   result |-> AgentFinishAction, sent |-> <<>>, completions |-> 0,
   parses |-> 0, action_resp |-> <<>>, validated |-> FALSE, writes |-> 0]

\* The call on the state (wf, step_index, data, chars) with state.updated_info
\* = info and the completion outcome llm: the new fields and the result.
Advance(wf, step_index, data, chars, info, llm) ==
  IF IsOver(wf, step_index) THEN FinishCall(step_index, data, chars)
  ELSE
    LET check == IF MustValidate(step_index)
                 THEN update_previous_workflow_step(wf, step_index, data, info)
                 ELSE [ret |-> TRUE, data |-> data, writes |-> 0]
        step == wf[step_index + 1]
        do == StepDo(step)
    IN IF ~check.ret THEN
         [step |-> step_index, data |-> check.data, chars |-> chars,
          result |-> AgentRejectAction, sent |-> <<>>, completions |-> 0,
          parses |-> 0, action_resp |-> <<>>, validated |-> TRUE, writes |-> check.writes]
       ELSE IF ActionKey \in Keys(do) THEN
         [step |-> NextStep(step_index), data |-> check.data, chars |-> chars,
          result |-> action_from_dict(do), sent |-> <<step_index>>,
          completions |-> 0, parses |-> 0, action_resp |-> <<>>,
          validated |-> MustValidate(step_index), writes |-> check.writes]
       ELSE IF PromptKey \in Keys(do) THEN
         LET p == prompt_to_action(do[PromptKey].v, chars, llm)
         IN [step |-> NextStep(step_index), data |-> check.data,
             chars |-> p.chars, result |-> p.result, sent |-> <<step_index>>,
             completions |-> p.completions, parses |-> p.parses,
             action_resp |-> p.action_resp,
             validated |-> MustValidate(step_index), writes |-> check.writes]
       ELSE
         [step |-> NextStep(step_index), data |-> check.data, chars |-> chars,
          result |-> Raise("ValueError",
                           "Step must contain either an action or a prompt"),
          sent |-> <<>>, completions |-> 0, parses |-> 0, action_resp |-> <<>>,
          validated |-> MustValidate(step_index), writes |-> check.writes]

\* every observation of the log is an accepted one
OnlyAccepted(info) ==
  \A i \in 1..Len(info) : validate_observation(info[i].action, info[i].obs)

\* the log holds a pair for the action the previous call returned
HoldsReturned(res, info) ==
  res.kind = "action" =>
    \E i \in 1..Len(info) : info[i].action.action = res.action

\* the action a fixed step returned at the previous call has a failed
\* CmdOutputObservation in the log
FixedFailed(wf, step_index, res, info) ==
  /\ res.kind = "action"
  /\ step_index > 0
  /\ ActionKey \in Keys(StepDo(wf[step_index]))
  /\ \E i \in 1..Len(info) :
       /\ info[i].action.action = res.action
       /\ info[i].obs.type = "CmdOutputObservation"
       /\ info[i].obs.exit_code # 0

\* the completion outcomes the call can meet: one per call that reaches the
\* completion call, none (a placeholder) for a call that does not
CompletionsAt(wf, step_index) ==
  IF /\ ~IsOver(wf, step_index)
     /\ PromptKey \in Keys(StepDo(wf[step_index + 1]))
  THEN Completions
  ELSE {[ok |-> FALSE, content |-> <<>>]}

Init ==
  /\ workflow \in Workflows
  /\ workflow_step = 0
  /\ workflow_data = EmptyDict
  /\ num_of_chars = 0
  /\ result = None
  /\ calls = 0
  /\ dispatched = <<>>
  /\ completions = 0
  /\ parses = 0
  /\ action_resp = <<>>
  /\ validated = FALSE
  /\ writes = 0
  /\ accepted = TRUE
  /\ fedback = TRUE
  /\ failed = FALSE
  /\ text = <<>>
  /\ parsed = None
  /\ decodes = 0
  /\ PushIdle
  /\ SingletonIdle

step_workflow ==
  /\ calls < MaxCalls
  /\ \E info \in Logs, llm \in CompletionsAt(workflow, workflow_step) :
       \E a \in {Advance(workflow, workflow_step, workflow_data, num_of_chars,
                         info, llm)} :
          /\ workflow_step' = a.step
          /\ workflow_data' = a.data
          /\ num_of_chars' = a.chars
          /\ result' = a.result
          /\ dispatched' = dispatched \o a.sent
          /\ completions' = a.completions
          /\ parses' = a.parses
          /\ action_resp' = a.action_resp
          /\ validated' = a.validated
          /\ writes' = a.writes
          /\ accepted' = (accepted /\ OnlyAccepted(info))
          /\ fedback' = (fedback /\ HoldsReturned(result, info))
          /\ failed' = (failed \/ FixedFailed(workflow, workflow_step, result, info))
  /\ calls' = calls + 1
  /\ UNCHANGED <<workflow, evars, pvars, svars>>

Next == step_workflow

Spec == Init /\ [][Next]_vars

\* ------------------------------------------- parse_response on its own inputs
ExtractInit ==
  /\ workflow = <<>>
  /\ workflow_step = 0
  /\ workflow_data = EmptyDict
  /\ num_of_chars = 0
  /\ result = None
  /\ calls = 0
  /\ dispatched = <<>>
  /\ completions = 0
  /\ parses = 0
  /\ action_resp = <<>>
  /\ validated = FALSE
  /\ writes = 0
  /\ accepted = TRUE
  /\ fedback = TRUE
  /\ failed = FALSE
  /\ text \in Texts(MaxTokens)
  /\ parsed = None
  /\ decodes = 0
  /\ PushIdle
  /\ SingletonIdle

Extract ==
  /\ parsed = None
  /\ parsed' = parse_response(text)
  /\ decodes' = Decodes(text)
  /\ UNCHANGED <<wvars, text, pvars, svars>>

ExtractNext == Extract

ExtractSpec == ExtractInit /\ [][ExtractNext]_vars


\* -------------------------------------------------------- GithubPushAction
TokenName == "OPENDEVIN_GITHUB_TOKEN"

\* os.environ without the token, with an empty one and with a token
Environs == {EmptyDict, (TokenName :> ""), (TokenName :> "ghp")}

\* os.environ.get('OPENDEVIN_GITHUB_TOKEN') is truthy
HasToken(env) == TokenName \in Keys(env) /\ env[TokenName] # ""

PushActions == [owner : {"o"}, repo : {"r"}, branch : {"main", "dev"}]

\* random.choices(string.ascii_lowercase, k=5) after 'opendevin_temp_'
Remotes == {"opendevin_temp_aaaaa", "opendevin_temp_zzzzz"}

AgentErrorObservation(content) ==
  [type |-> "AgentErrorObservation", content |-> content]
TokenNotSet ==
  AgentErrorObservation(
    "OPENDEVIN_GITHUB_TOKEN is not set in the environment variables")

\* what controller.action_manager.run_command returns: a CmdOutputObservation
\* with an exit code, or an observation of another class
ExitCodes == {0, 1, 128}
CommandResults ==
  {CmdOutputObservation(e) : e \in ExitCodes}
    \cup {NullObservation, AgentErrorObservation("run_command failed")}

\* the three commands
AddCommand(remote, token, action) ==
  [git |-> "remote add", remote |-> remote,
   new_url |-> [token |-> token, owner |-> action.owner, repo |-> action.repo]]
PushCommand(remote, action) ==
  [git |-> "push", remote |-> remote, branch |-> action.branch]
RemoveCommand(remote) == [git |-> "remote remove", remote |-> remote]

\* not isinstance(result, CmdOutputObservation) or result.exit_code != 0
NotCmdOutputZero(res) ==
  res.type # "CmdOutputObservation" \/ res.exit_code # 0

\* the value run returns after the remove command
AfterRemovePushFirst(remove_result, pushed) ==
  IF NotCmdOutputZero(pushed) THEN pushed ELSE remove_result

AfterRemove(remove_result, pushed) ==
  IF NotCmdOutputZero(remove_result) THEN remove_result ELSE pushed

PushInit ==
  /\ workflow = <<>>
  /\ workflow_step = 0
  /\ workflow_data = EmptyDict
  /\ num_of_chars = 0
  /\ result = None
  /\ calls = 0
  /\ dispatched = <<>>
  /\ completions = 0
  /\ parses = 0
  /\ action_resp = <<>>
  /\ validated = FALSE
  /\ writes = 0
  /\ accepted = TRUE
  /\ fedback = TRUE
  /\ failed = FALSE
  /\ text = <<>>
  /\ parsed = None
  /\ decodes = 0
  /\ environ \in Environs
  /\ self \in PushActions
  /\ pc = "start"
  /\ random_remote = None
  /\ set_url_result = None
  /\ push_result = None
  /\ returned = None
  /\ ran = <<>>
  /\ SingletonIdle

\* lines 39-43: without a token run returns an error observation
NoToken ==
  /\ pc = "start"
  /\ ~HasToken(environ)
  /\ returned' = TokenNotSet
  /\ pc' = "done"
  /\ UNCHANGED <<wvars, evars, svars, environ, self, random_remote, set_url_result,
                 push_result, ran>>

\* lines 46-48: the name of the temporary remote
ChooseRemote ==
  /\ pc = "start"
  /\ HasToken(environ)
  /\ random_remote' \in Remotes
  /\ pc' = "add"
  /\ UNCHANGED <<wvars, evars, svars, environ, self, set_url_result, push_result,
                 returned, ran>>

\* lines 51-60: git remote add, and the return when it did not succeed
AddRemote ==
  /\ pc = "add"
  /\ \E res \in CommandResults :
       /\ set_url_result' = res
       /\ ran' = Append(ran, [command |-> AddCommand(random_remote,
                                                     environ[TokenName], self),
                              result |-> res])
       /\ IF NotCmdOutputZero(res)
          THEN returned' = res /\ pc' = "done"
          ELSE returned' = returned /\ pc' = "push"
  /\ UNCHANGED <<wvars, evars, svars, environ, self, random_remote, push_result>>

\* lines 63-64: git push
Push ==
  /\ pc = "push"
  /\ \E res \in CommandResults :
       /\ push_result' = res
       /\ ran' = Append(ran, [command |-> PushCommand(random_remote, self),
                              result |-> res])
  /\ pc' = "remove"
  /\ UNCHANGED <<wvars, evars, svars, environ, self, random_remote, set_url_result,
                 returned>>

\* lines 67-77: git remote remove, and the return
RemoveRemote ==
  /\ pc = "remove"
  /\ \E res \in CommandResults :
       /\ set_url_result' = res
       /\ ran' = Append(ran, [command |-> RemoveCommand(random_remote),
                              result |-> res])
       /\ returned' = AfterRemove(res, push_result)
  /\ pc' = "done"
  /\ UNCHANGED <<wvars, evars, svars, environ, self, random_remote, push_result>>

PushNext == NoToken \/ ChooseRemote \/ AddRemote \/ Push \/ RemoveRemote

PushSpec == PushInit /\ [][PushNext]_vars

\* ---------------------------------------------------------------- Singleton
\* The classes with metaclass=Singleton and their dataclass fields in order.
Classes == {"LLMConfig", "AgentConfig", "AppConfig"}

FieldsOf(cls) ==
  IF cls = "LLMConfig" THEN <<"model", "api_key">>
  ELSE IF cls = "AgentConfig" THEN <<"name", "memory_enabled">>
  ELSE <<"llm", "agent", "max_iterations">>

\* the default of a field that has no default_factory
DefaultOf(f) ==
  IF f = "model" THEN "gpt-3.5-turbo-1106"
  ELSE IF f = "api_key" THEN "None"
  ELSE IF f = "name" THEN "CodeActAgent"
  ELSE IF f = "memory_enabled" THEN "False"
  ELSE "100"

\* The keyword arguments of a call: some of these keys, each with one value.
\* "unknown" is not a field of the class.
KwargValues ==
  [model |-> "gpt-4", api_key |-> "key", unknown |-> "v",
   name |-> "MonologueAgent", max_iterations |-> "7"]
KwargKeys(cls) ==
  IF cls = "LLMConfig" THEN {"model", "api_key", "unknown"}
  ELSE IF cls = "AgentConfig" THEN {"name"}
  ELSE {"max_iterations"}
KwargsOf(cls) ==
  {[k \in ks |-> KwargValues[k]] : ks \in SUBSET KwargKeys(cls)}

\* The positional arguments of a call: none, or the first field of LLMConfig.
ArgsOf(cls) == IF cls = "LLMConfig" THEN {<<>>, <<"gpt-4o">>} ELSE {<<>>}

\* the position of field f in the fields
Position(fs, f) == CHOOSE i \in 1..Len(fs) : fs[i] = f

\* setattr(instance, key, value) for every item of kwargs
SetAttrs(attrs, kwargs) ==
  [k \in Keys(attrs) \cup Keys(kwargs) |->
     IF k \in Keys(kwargs) THEN kwargs[k] ELSE attrs[k]]

RECURSIVE SingletonCall(_, _, _, _, _)
RECURSIVE New(_, _, _, _, _)

\* super(Singleton, cls).__call__(*args, **kwargs): the dataclass __init__.
\* It raises TypeError for a keyword that is no field, for too many
\* positional arguments and for a field given twice; the default_factory
\* of llm and agent calls LLMConfig() and AgentConfig().
New(cls, args, kwargs, inst, hp) ==
  LET fs == FieldsOf(cls)
      names == {fs[i] : i \in 1..Len(fs)}
  IN IF \/ ~(Keys(kwargs) \subseteq names)
        \/ Len(args) > Len(fs)
        \/ \E i \in 1..Len(args) : fs[i] \in Keys(kwargs)
     THEN [ok |-> FALSE, instances |-> inst, heap |-> hp, id |-> 0]
     ELSE
       LET l == IF cls = "AppConfig"
                THEN SingletonCall("LLMConfig", <<>>, EmptyDict, inst, hp)
                ELSE [instances |-> inst, heap |-> hp, ret |-> 0]
           a == IF cls = "AppConfig"
                THEN SingletonCall("AgentConfig", <<>>, EmptyDict,
                                   l.instances, l.heap)
                ELSE l
           attrs == [f \in names |->
                       IF Position(fs, f) <= Len(args) THEN args[Position(fs, f)]
                       ELSE IF f \in Keys(kwargs) THEN kwargs[f]
                       ELSE IF f = "llm" THEN l.ret
                       ELSE IF f = "agent" THEN a.ret
                       ELSE DefaultOf(f)]
       IN [ok |-> TRUE, instances |-> a.instances,
           heap |-> Append(a.heap, [cls |-> cls, attrs |-> attrs]),
           id |-> Len(a.heap) + 1]

\* a call that never looks into _instances
SingletonCallAlwaysNew(cls, args, kwargs, inst, hp) ==
  LET made == New(cls, args, kwargs, inst, hp)
  IN IF ~made.ok
     THEN [instances |-> made.instances, heap |-> made.heap, ret |-> 0]
     ELSE [instances |-> Put(made.instances, cls, made.id),
           heap |-> made.heap, ret |-> made.id]

\* Singleton.__call__ on the dict inst and the instances hp: the new dict,
\* the new instances and the id returned (0 when the call raised)
SingletonCall(cls, args, kwargs, inst, hp) ==
  IF cls \notin Keys(inst) THEN
    LET made == New(cls, args, kwargs, inst, hp)
    IN IF ~made.ok
       THEN [instances |-> made.instances, heap |-> made.heap, ret |-> 0]
       ELSE [instances |-> Put(made.instances, cls, made.id),
             heap |-> made.heap, ret |-> made.id]
  ELSE
    [instances |-> inst,
     heap |-> [hp EXCEPT ![inst[cls]].attrs = SetAttrs(@, kwargs)],
     ret |-> inst[cls]]

SingletonInit ==
  /\ workflow = <<>>
  /\ workflow_step = 0
  /\ workflow_data = EmptyDict
  /\ num_of_chars = 0
  /\ result = None
  /\ calls = 0
  /\ dispatched = <<>>
  /\ completions = 0
  /\ parses = 0
  /\ action_resp = <<>>
  /\ validated = FALSE
  /\ writes = 0
  /\ accepted = TRUE
  /\ fedback = TRUE
  /\ failed = FALSE
  /\ text = <<>>
  /\ parsed = None
  /\ decodes = 0
  /\ PushIdle
  /\ SingletonIdle

\* one call cls(*args, **kwargs) of a configuration class
Construct ==
  /\ constructs < MaxConstructs
  /\ \E cls \in Classes :
       \E args \in ArgsOf(cls), kwargs \in KwargsOf(cls) :
         \E c \in {SingletonCall(cls, args, kwargs, instances, heap)} :
           /\ instances' = c.instances
           /\ heap' = c.heap
           /\ ret' = c.ret
           /\ last' = [kind |-> "call", cls |-> cls, args |-> args,
                       kwargs |-> kwargs]
           /\ firsts' = [k \in Keys(firsts) \cup Keys(c.instances) |->
                           IF k \in Keys(firsts) THEN firsts[k]
                           ELSE c.instances[k]]
  /\ constructs' = constructs + 1
  /\ UNCHANGED <<wvars, evars, pvars>>

SingletonNext == Construct

SingletonSpec == SingletonInit /\ [][SingletonNext]_vars

\* ==================================================================== claims
IsFixed(step) == ActionKey \in Keys(StepDo(step))
AllFixed(wf) == \A i \in 1..Len(wf) : IsFixed(wf[i])
IsFailure(obs) == obs.type = "CmdOutputObservation" /\ obs.exit_code # 0

\* pair i of the log is for the fixed action of step and reports a failure
FailedPair(step, info, i) ==
  /\ IsFixed(step)
  /\ info[i].action.action = step.do[ActionKey].v
  /\ IsFailure(info[i].obs)

\* C1: over a workflow of N steps that all carry a fixed action, while every
\* log given so far held accepted observations only, call i (1 <= i <= N)
\* returns the action of step i - 1 and call N + 1 returns AgentFinishAction
\* with workflow_step = N.
C1_FixedStepsInOrder ==
  (AllFixed(workflow) /\ accepted) =>
    /\ (calls \in 1..Len(workflow)) =>
         /\ result = action_from_dict(workflow[calls].do)
         /\ workflow_step = calls
    /\ (calls = Len(workflow) + 1) =>
         /\ result = AgentFinishAction
         /\ workflow_step = Len(workflow)

C1_Witness ==
  /\ AllFixed(workflow) /\ accepted
  /\ Len(workflow) >= 3
  /\ calls = Len(workflow) + 1
  /\ result = AgentFinishAction
  /\ workflow[1].do # workflow[2].do
  /\ Keys(workflow_data) # {}

\* C2: a call with 0 < workflow_step < len(workflow) whose previous step has
\* a fixed action, given a log with a failed CmdOutputObservation for that
\* action, returns AgentRejectAction, dispatches nothing, leaves
\* workflow_step alone and leaves under the previous step's name a failed
\* observation taken from that log.
C2_FailedStepRejects ==
  \A info \in Logs, llm \in CompletionsAt(workflow, workflow_step) :
    ( /\ 0 < workflow_step /\ workflow_step < Len(workflow)
      /\ \E i \in 1..Len(info) : FailedPair(workflow[workflow_step], info, i) )
    => \A a \in {Advance(workflow, workflow_step, workflow_data, num_of_chars,
                         info, llm)} :
         /\ a.result = AgentRejectAction
         /\ a.step = workflow_step
         /\ a.sent = <<>>
         /\ a.completions = 0
         /\ workflow[workflow_step].name \in Keys(a.data)
         /\ IsFailure(a.data[workflow[workflow_step].name])
         /\ \E i \in 1..Len(info) :
              /\ FailedPair(workflow[workflow_step], info, i)
              /\ info[i].obs = a.data[workflow[workflow_step].name]

C2_Witness ==
  /\ result = AgentRejectAction
  /\ workflow_step = 2
  /\ writes = 2
  /\ Keys(workflow_data) = {"s0", "s1"}
  /\ workflow_data["s1"] = CmdOutputObservation(1)

\* C3 (as stated): once a call has returned AgentRejectAction, every later
\* call returns AgentRejectAction too, whatever log it is given.
C3_RejectedIsTerminal ==
  [][ result = AgentRejectAction => result' = AgentRejectAction ]_vars

\* C4: once workflow_step >= len(workflow), every call returns
\* AgentFinishAction, validates nothing, makes no completion call and leaves
\* workflow_step and workflow_data alone, whatever the log.
C4_FinishedIsTerminal ==
  [][ workflow_step >= Len(workflow)
      => ( /\ result' = AgentFinishAction
           /\ ~validated'
           /\ completions' = 0
           /\ workflow_step' = workflow_step
           /\ workflow_data' = workflow_data
           /\ writes' = 0
           /\ dispatched' = dispatched ) ]_vars

C4_Witness ==
  /\ result = AgentFinishAction
  /\ Len(workflow) > 0
  /\ calls >= Len(workflow) + 2
  /\ Keys(workflow_data) # {}
  /\ ~accepted

\* C5 (as stated): in a run where every log holds the pair of the action the
\* previous call returned, AgentFinishAction is returned only if no step
\* with a fixed action, the last one included, had a failed
\* CmdOutputObservation.
C5_FinishedMeansNoFailedStep ==
  (result = AgentFinishAction /\ fedback) => ~failed

\* C6: every step is dispatched at most once and the steps are dispatched in
\* strictly increasing order of their index, also across calls that raise.
C6_DispatchedOnceInOrder ==
  \A i, j \in 1..Len(dispatched) : i < j => dispatched[i] < dispatched[j]

C6_Witness ==
  /\ result.kind = "raise"
  /\ Len(dispatched) >= 2
  /\ calls > workflow_step

\* C7: workflow_step starts at 0, never decreases, grows by exactly one in
\* every call that returns a step's action and is left alone by a call that
\* returns AgentFinishAction or AgentRejectAction.
C7_StepIndexMonotone ==
  /\ workflow_step = 0
  /\ [][ /\ workflow_step' >= workflow_step
         /\ (result'.kind = "action" => workflow_step' = workflow_step + 1)
         /\ (result' \in {AgentFinishAction, AgentRejectAction}
               => workflow_step' = workflow_step) ]_vars

C7_Witness ==
  /\ result.kind = "action"
  /\ workflow_step = 2
  /\ calls = 4

\* C8: every key of workflow_data is the name of a step whose position is
\* strictly less than workflow_step.
C8_DataKeysArePassedSteps ==
  \A k \in Keys(workflow_data) :
    \E i \in 0..(Len(workflow) - 1) :
      workflow[i + 1].name = k /\ i < workflow_step

C8_Witness ==
  /\ Keys(workflow_data) = {"s0", "s1"}
  /\ workflow_step = 2

BraceFree(s) == \A i \in 1..Len(s) : s[i] \notin {"{", "}"}

RECURSIVE Depth(_, _)
Depth(s, n) ==
  IF n = 0 THEN 0
  ELSE Depth(s, n - 1) + (IF s[n] = "{" THEN 1 ELSE IF s[n] = "}" THEN -1 ELSE 0)

Balanced(s) ==
  /\ Len(s) >= 2 /\ s[1] = "{" /\ s[Len(s)] = "}"
  /\ Depth(s, Len(s)) = 0
  /\ \A n \in 1..Len(s) : Depth(s, n) >= 0

C10_SingleObjectInProse ==
  parsed # None =>
    \A i, j \in 1..Len(text) :
      ( /\ i < j
        /\ BraceFree(SubSeq(text, 1, i - 1))
        /\ BraceFree(SubSeq(text, j + 1, Len(text)))
        /\ Balanced(SubSeq(text, i, j))
        /\ Decode(SubSeq(text, i, j)).kind = "action" )
      => parsed = Decode(SubSeq(text, i, j))

\* the first balanced region of s is s[i..j]: it is balanced and no balanced
\* substring of s ends before j
FirstRegion(s, i, j) ==
  /\ i < j
  /\ Balanced(SubSeq(s, i, j))
  /\ \A k, l \in 1..(j - 1) : k < l => ~Balanced(SubSeq(s, k, l))

\* C11 (as stated): when the first balanced region of the text is not valid
\* JSON, parse_response raises LLMOutputError and returns no action, also
\* when a later region of the text is a valid action.
C11_FirstRegionOnly ==
  parsed # None =>
    \A i, j \in 1..Len(text) :
      (FirstRegion(text, i, j) /\ ~JsonLoads(SubSeq(text, i, j)).ok)
      => (parsed.kind = "raise" /\ parsed.error = "LLMOutputError")

\* C12: on a text without '{', also one that holds '}', parse_response
\* raises LLMOutputError('No valid JSON object found in response.') and
\* never calls json.loads.
C12_NoOpeningBrace ==
  (parsed # None /\ \A i \in 1..Len(text) : text[i] # "{")
  => (parsed = NoObjectFound /\ decodes = 0)

C12_Witness ==
  /\ parsed = NoObjectFound
  /\ decodes = 0
  /\ \A i \in 1..Len(text) : text[i] # "{"
  /\ \E i, j \in 1..Len(text) : text[i] = "}" /\ text[j] = Q

\* C13 (as stated): every failure of parse_response is an LLMOutputError,
\* also when the first candidate is valid JSON and action_from_dict rejects
\* the decoded dict.
C13_EveryFailureIsLLMOutputError ==
  parsed.kind = "raise" => parsed.error = "LLMOutputError"

\* the step has neither a fixed action nor a prompt
HasNeither(step) ==
  ActionKey \notin Keys(StepDo(step)) /\ PromptKey \notin Keys(StepDo(step))

\* C14 (as stated): a workflow with a step that has neither an action nor a
\* prompt is rejected when the agent is constructed, so no call of
\* step_workflow reaches such a step: none raises because of it or changes
\* workflow_step because of it.
C14_StepWithoutDoNeverReached ==
  [][ ( /\ workflow_step < Len(workflow)
        /\ HasNeither(workflow[workflow_step + 1]) )
      => ( /\ workflow_step' = workflow_step
           /\ result'.kind # "raise" ) ]_vars

\* C15: when the previous step has a fixed action,
\* update_previous_workflow_step returns False if and only if the log holds
\* a pair for that action whose observation is a CmdOutputObservation with
\* a non-zero exit code: pairs of other actions, other observations and a
\* log without a matching pair make it return True.
C15_ValidationFailsIffFailedPair ==
  \A info \in Logs :
    (workflow_step > 0 /\ IsFixed(workflow[workflow_step]))
    => ( ~update_previous_workflow_step(workflow, workflow_step,
                                        workflow_data, info).ret
         <=> \E i \in 1..Len(info) :
               FailedPair(workflow[workflow_step], info, i) )

C15_Witness ==
  /\ validated
  /\ result.kind = "action"
  /\ calls = 2
  /\ workflow_step = 2
  /\ workflow[1].do = FixedDo(RunId)
  /\ workflow_data = ("s0" :> NullObservation)
  /\ ~accepted

\* C16 (as stated): whenever the text has a balanced substring (one that
\* starts with '{', ends with '}' and is brace-balanced), parse_response
\* takes a candidate and does not raise the "no object found" error, also
\* when an unmatched '}' comes before that substring.
C16_BalancedRegionIsFound ==
  (parsed # None /\ \E i, j \in 1..Len(text) : FirstRegion(text, i, j))
  => (decodes = 1 /\ parsed # NoObjectFound)

\* C17: when the previous step has no fixed action (it is driven by a
\* prompt), update_previous_workflow_step returns True for every log, also
\* one with failed CmdOutputObservations, and leaves workflow_data as it is.
C17_PromptStepAlwaysValidates ==
  \A info \in Logs :
    (workflow_step > 0 /\ ~IsFixed(workflow[workflow_step]))
    => \A u \in {update_previous_workflow_step(workflow, workflow_step,
                                                workflow_data, info)} :
         u.ret /\ u.data = workflow_data /\ u.writes = 0

C17_Witness ==
  /\ validated
  /\ writes = 0
  /\ calls = 3
  /\ workflow_step = 3
  /\ workflow[2].do = PromptDo
  /\ IsFixed(workflow[1])
  /\ Keys(workflow_data) = {"s0"}
  /\ result.kind = "action"

C19_StepIndexInRange ==
  /\ 0 <= workflow_step
  /\ workflow_step <= Len(workflow)
  /\ ~IsOver(workflow, workflow_step)
       => /\ workflow_step + 1 \in DOMAIN workflow
          /\ MustValidate(workflow_step)
               => PrevStep(workflow_step) + 1 \in DOMAIN workflow

C19_Witness ==
  /\ Len(workflow) = 2
  /\ workflow_step = Len(workflow)
  /\ calls = MaxCalls
  /\ result = AgentFinishAction
  /\ ~IsFixed(workflow[2])

\* C20: GithubPushAction.run without a token runs no command and returns an
\* error observation; the push command is run only right after the add
\* command returned a CmdOutputObservation with exit code 0; a run that ran
\* the push command does not return before it ran the remove command,
\* whatever the push returned; and it then returns the push result if the
\* remove command succeeded and the remove result otherwise.
C20_PushProtocol ==
  /\ (pc = "done" /\ ~HasToken(environ))
       => (ran = <<>> /\ returned = TokenNotSet)
  /\ Len(ran) <= 3
  /\ \A i \in 1..Len(ran) :
       /\ ran[i].command.git = "remote add" => i = 1
       /\ ran[i].command.git = "push"
            => /\ i = 2
               /\ ran[1].command.git = "remote add"
               /\ ran[1].result \in {CmdOutputObservation(0)}
               /\ ran[2].command.remote = ran[1].command.remote
       /\ ran[i].command.git = "remote remove"
            => /\ i = 3
               /\ ran[2].command.git = "push"
               /\ ran[3].command.remote = ran[2].command.remote
  /\ (pc = "done" /\ Len(ran) = 1)
       => (returned = ran[1].result /\ ran[1].result # CmdOutputObservation(0))
  /\ (pc = "done" /\ Len(ran) >= 2)
       => /\ Len(ran) = 3
          /\ ran[3].command.git = "remote remove"
          /\ returned = (IF ran[3].result \in {CmdOutputObservation(0)}
                         THEN ran[2].result ELSE ran[3].result)

C20_Witness ==
  /\ pc = "done"
  /\ Len(ran) = 3
  /\ ran[2].result = CmdOutputObservation(128)
  /\ ran[3].result = CmdOutputObservation(0)
  /\ returned = CmdOutputObservation(128)

\* C21: after any sequence of calls of the configuration classes, at most
\* one instance of each class exists and every call that returns gives the
\* instance the first call for its class returned; a call for a class that
\* already has its instance sets on it exactly the attributes named by the
\* keyword arguments, leaves its other attributes and every other instance
\* as they were and creates nothing.
C21_OneInstancePerClass ==
  /\ [] ( /\ \A i, j \in 1..Len(heap) : heap[i].cls = heap[j].cls => i = j
          /\ \A cls \in Keys(instances) : heap[instances[cls]].cls = cls
          /\ (last # None /\ ret # 0)
               => (ret = firsts[last.cls] /\ ret = instances[last.cls]) )
  /\ [][ (last' # None /\ last'.cls \in Keys(instances))
         => /\ ret' = instances[last'.cls]
            /\ instances' = instances
            /\ Len(heap') = Len(heap)
            /\ \A id \in 1..Len(heap) :
                 IF id = ret'
                 THEN /\ heap'[id].cls = heap[id].cls
                      /\ \A k \in Keys(last'.kwargs) :
                           /\ k \in Keys(heap'[id].attrs)
                           /\ heap'[id].attrs[k] = last'.kwargs[k]
                      /\ \A k \in Keys(heap[id].attrs) \ Keys(last'.kwargs) :
                           /\ k \in Keys(heap'[id].attrs)
                           /\ heap'[id].attrs[k] = heap[id].attrs[k]
                      /\ Keys(heap'[id].attrs)
                           = Keys(heap[id].attrs) \cup Keys(last'.kwargs)
                 ELSE heap'[id] = heap[id] ]_vars

C21_Witness ==
  /\ constructs = 3
  /\ Keys(instances) = Classes
  /\ last # None
  /\ last.cls = "LLMConfig"
  /\ last.args # <<>>
  /\ Keys(last.kwargs) = {"api_key"}
  /\ heap[ret].attrs["model"] = "gpt-4"
  /\ heap[ret].attrs["api_key"] = "key"
  /\ heap[instances["AppConfig"]].attrs["llm"] = ret

====
